---- MODULE Spec2Model ----
(***************************************************************************)
(* Model of tsundoku's data model (src/tsundoku/datamodel.rs): a Database  *)
(* wrapping one in-memory SQLite connection with the relations links,      *)
(* tags and linktags, and the operations get_tag_id, contains_tag,         *)
(* list_tags, add_tag and add_entry.                                        *)
(*                                                                         *)
(* A relation is a set of rows; a row is a function from the relation's    *)
(* column names to values.  A scan of a relation visits the rows in        *)
(* ascending rowid order, as SQLite's table b-tree does.                   *)
(***************************************************************************)
EXTENDS Integers, Sequences, FiniteSets, TLC

(* ---------------------------- input domains ---------------------------- *)

\* Tag texts offered by callers: they differ by case and by a trailing blank.
Texts == {"a", "A", "a "}

\* Link texts offered by callers.
LinkTexts == {"http://example.com"}

\* Comment texts offered by callers.
CommentTexts == {"nice"}

\* Timestamps offered by callers.
Timestamps == {7}

\* Longest tag list of an Entry.
MaxEntryTags == 2

\* Cap on the rows of any one relation.
MaxRows == 6

\* Option<T>: None is the empty sequence, Some(x) the one-element sequence.
None == << >>
Some(x) == << x >>

SeqsUpTo(S, n) == UNION { [1..k -> S] : k \in 0..n }

(* ------------------------------- Archive ------------------------------- *)

\* enum Archive { Queue, Archive }, stored as its discriminant (as u8).
Queue == 0
Archive == 1

(* ------------------------------- results ------------------------------- *)

\* TagAddResult and TagQueryResult
TagAlreadyExists == [kind |-> "TagAlreadyExists", val |-> 0]
TagNotFound == [kind |-> "TagNotFound", val |-> 0]
TagId(i) == [kind |-> "TagId", val |-> i]

\* rusqlite::Result
Ok(v) == [kind |-> "Ok", val |-> v]
Err(e) == [kind |-> "Err", val |-> e]

(* -------------------------------- schema ------------------------------- *)

\* Columns of the relations created by init_database.
LinksColumns == {"link_id", "link", "comment"}
TagsColumns == {"tag_id", "tag"}
LinkTagsColumns == {"rowid", "link_id", "tag_id"}

\* Columns named by the insert statements.
InsertLinksColumns == {"link_id", "link", "comment", "archive", "timestamp"}
InsertTagsColumns == {"tag_id", "tag"}

\* The connection after Connection::open_in_memory and init_database:
\* three empty relations, the AUTOINCREMENT counters (sqlite_sequence) at 0
\* and no row inserted yet on the connection.
init_database ==
    [ links |-> {},
      tags |-> {},
      linktags |-> {},
      sqlite_sequence |-> [links |-> 0, tags |-> 0],
      last_insert_rowid |-> 0 ]

(* ------------------------------- SQLite -------------------------------- *)

RECURSIVE Scan(_, _)
\* The rows of a relation in ascending order of the rowid column idcol.
Scan(rows, idcol) ==
    IF rows = {} THEN << >>
    ELSE LET first == CHOOSE r \in rows : \A s \in rows : r[idcol] <= s[idcol]
         IN << first >> \o Scan(rows \ {first}, idcol)

\* NextRowid as it would be if identifiers were counted from 0.
NextRowid_zero_based(c, table) == Cardinality(c[table])

\* The rowid an INTEGER PRIMARY KEY AUTOINCREMENT column gets for NULL:
\* one more than the largest rowid the relation ever held.
NextRowid(c, table) == c.sqlite_sequence[table] + 1

\* conn.execute("insert into links (link_id, link, comment, archive,
\* timestamp) values (null, ?1, ?2, ?3, ?4)"): the statement is prepared
\* against the relation's columns and fails when it names a column the
\* relation does not have; a failed statement changes nothing.
execute_insert_links(c, link, comment, archive, timestamp) ==
    IF ~(InsertLinksColumns \subseteq LinksColumns)
    THEN [conn |-> c, res |-> Err("no such column")]
    ELSE LET id == NextRowid(c, "links")
             vals == [link_id |-> id, link |-> link, comment |-> comment,
                      archive |-> archive, timestamp |-> timestamp]
             row == [col \in LinksColumns |-> vals[col]]
         IN [conn |-> [c EXCEPT !.links = @ \cup {row},
                                !.sqlite_sequence.links = id,
                                !.last_insert_rowid = id],
             res |-> Ok(1)]

\* The insert as it would be with "insert or replace" on the latest rowid.
execute_insert_tags_replace(c, tag) ==
    LET id == IF c.sqlite_sequence.tags = 0 THEN 1 ELSE c.sqlite_sequence.tags
        row == [tag_id |-> id, tag |-> tag]
    IN [conn |-> [c EXCEPT !.tags = { r \in @ : r.tag_id # id } \cup {row},
                           !.sqlite_sequence.tags = id,
                           !.last_insert_rowid = id],
        res |-> Ok(1)]

\* conn.execute("insert into tags (tag_id, tag) values (NULL, ?1)")
execute_insert_tags(c, tag) ==
    IF ~(InsertTagsColumns \subseteq TagsColumns)
    THEN [conn |-> c, res |-> Err("no such column")]
    ELSE LET id == NextRowid(c, "tags")
             vals == [tag_id |-> id, tag |-> tag]
             row == [col \in TagsColumns |-> vals[col]]
         IN [conn |-> [c EXCEPT !.tags = @ \cup {row},
                                !.sqlite_sequence.tags = id,
                                !.last_insert_rowid = id],
             res |-> Ok(1)]

(* ------------------------------ Database ------------------------------- *)

\* Fold(t): the text t with its case folded and its trailing blanks removed.
Fold(t) == IF t \in {"A", "a "} THEN "a" ELSE t

\* get_tag_id as it would be with a case-folding, trimming comparison.
get_tag_id_folding(c, tag) ==
    LET tag_iter == SelectSeq(Scan(c.tags, "tag_id"),
                              LAMBDA r : Fold(r.tag) = Fold(tag))
    IN IF tag_iter = << >> THEN Ok(TagNotFound)
       ELSE Ok(TagId(Head(tag_iter).tag_id))

\* "select tag_id from tags where tag == ?1": the rows whose text equals
\* the argument under the BINARY collation, in scan order; the first one
\* decides the result.
get_tag_id(c, tag) ==
    LET tag_iter == SelectSeq(Scan(c.tags, "tag_id"), LAMBDA r : r.tag = tag)
    IN IF tag_iter = << >> THEN Ok(TagNotFound)
       ELSE Ok(TagId(Head(tag_iter).tag_id))

contains_tag(c, tag) ==
    LET q == get_tag_id(c, tag)
    IN IF q.kind = "Err" THEN q
       ELSE IF q.val.kind = "TagId" THEN Ok(TRUE) ELSE Ok(FALSE)

\* list_tags as it would be with "order by tag_id desc".
list_tags_desc(c) ==
    LET rows == Scan(c.tags, "tag_id")
    IN Ok([i \in 1..Len(rows) |-> rows[Len(rows) + 1 - i].tag])

\* "select tag from tags;": the text of every row, in scan order.
list_tags(c) ==
    LET rows == Scan(c.tags, "tag_id")
    IN Ok([i \in 1..Len(rows) |-> rows[i].tag])

\* add_tag as it would be if it read last_insert_rowid before the insert.
add_tag_stale_rowid(c, tag) ==
    LET contains == contains_tag(c, tag)
    IN IF contains.kind = "Err" THEN [conn |-> c, res |-> contains]
       ELSE IF contains.val THEN [conn |-> c, res |-> Ok(TagAlreadyExists)]
       ELSE LET ins == execute_insert_tags(c, tag)
            IN IF ins.res.kind = "Err" THEN ins
               ELSE [conn |-> ins.conn,
                     res |-> Ok(TagId(c.last_insert_rowid))]

\* add_tag as it would be if it answered an existing text with its identifier.
add_tag_disclosing(c, tag) ==
    LET q == get_tag_id(c, tag)
    IN IF q.kind = "Err" THEN [conn |-> c, res |-> q]
       ELSE IF q.val.kind = "TagId" THEN [conn |-> c, res |-> q]
       ELSE LET ins == execute_insert_tags(c, tag)
            IN IF ins.res.kind = "Err" THEN ins
               ELSE [conn |-> ins.conn,
                     res |-> Ok(TagId(ins.conn.last_insert_rowid))]

\* add_tag as it would be without the contains_tag test.
add_tag_unchecked(c, tag) ==
    LET ins == execute_insert_tags(c, tag)
    IN IF ins.res.kind = "Err" THEN ins
       ELSE [conn |-> ins.conn,
             res |-> Ok(TagId(ins.conn.last_insert_rowid))]

\* add_tag: the new connection state and the call's result.
add_tag(c, tag) ==
    LET contains == contains_tag(c, tag)
    IN IF contains.kind = "Err" THEN [conn |-> c, res |-> contains]
       ELSE IF contains.val THEN [conn |-> c, res |-> Ok(TagAlreadyExists)]
       ELSE LET ins == execute_insert_tags(c, tag)
            IN IF ins.res.kind = "Err" THEN ins
               ELSE [conn |-> ins.conn,
                     res |-> Ok(TagId(ins.conn.last_insert_rowid))]

\* fn tag_link(&self, tag_id: i64, link_id: i64) {}
tag_link(c, tag_id, link_id) == c

RECURSIVE add_entry_tags(_, _)
\* The loop of add_entry over the tag list: add_tag on each text in input
\* order, its result dropped by the caller.  Yields the connection state
\* after the loop and the dropped results, one per text.
add_entry_tags(c, ts) ==
    IF ts = << >> THEN [conn |-> c, dropped |-> << >>]
    ELSE LET one == add_tag(c, Head(ts))
             rest == add_entry_tags(one.conn, Tail(ts))
         IN [conn |-> rest.conn, dropped |-> << one.res >> \o rest.dropped]

\* add_entry: the new connection state, the call's result, and the results
\* it dropped on the way (the link insert's, then each add_tag's).
add_entry(c, entry) ==
    LET link == entry.link
        comment == IF entry.comment = None THEN "" ELSE entry.comment[1]
        archive == Queue
        timestamp == entry.timestamp
        ins == execute_insert_links(c, link, comment, archive, timestamp)
        link_id == ins.conn.last_insert_rowid
        loop == IF entry.tags = None
                THEN [conn |-> ins.conn, dropped |-> << >>]
                ELSE add_entry_tags(ins.conn, entry.tags[1])
    IN [conn |-> loop.conn,
        res |-> Ok(0),
        link_id |-> link_id,
        dropped |-> << ins.res >> \o loop.dropped]

\* The Entry values callers build.  Entry.archive is never read by add_entry.
Entries ==
    [ link : LinkTexts,
      comment : {None} \cup {Some(x) : x \in CommentTexts},
      tags : {None} \cup {Some(ts) : ts \in SeqsUpTo(Texts, MaxEntryTags)},
      archive : {Queue, Archive},
      timestamp : Timestamps ]

(* ----------------------------- the machine ----------------------------- *)

VARIABLES
    conn,       \* Database.conn: the relations and the connection's counters
    op,         \* the last call made on the Database
    arg,        \* its argument
    ret,        \* its result
    dropped,    \* the results the last call computed and did not return
    created,    \* history: the tag texts in the order their rows were inserted
    returned    \* history: the identifiers add_entry has returned

vars == << conn, op, arg, ret, dropped, created, returned >>

\* Database::open_in_memory
Init ==
    /\ conn = init_database
    /\ op = "open_in_memory"
    /\ arg = << >>
    /\ ret = Ok(0)
    /\ dropped = << >>
    /\ created = << >>
    /\ returned = {}

GetTagId(tag) ==
    /\ op' = "get_tag_id"
    /\ arg' = tag
    /\ ret' = get_tag_id(conn, tag)
    /\ dropped' = << >>
    /\ UNCHANGED << conn, created, returned >>

\* contains_tag as it would be if it looked the text up through add_tag.
ContainsTag_inserting(tag) ==
    /\ op' = "contains_tag"
    /\ arg' = tag
    /\ LET r == add_tag(conn, tag)
       IN /\ conn' = r.conn
          /\ ret' = Ok(r.res = Ok(TagAlreadyExists))
    /\ dropped' = << >>
    /\ UNCHANGED << created, returned >>

ContainsTag(tag) ==
    /\ op' = "contains_tag"
    /\ arg' = tag
    /\ ret' = contains_tag(conn, tag)
    /\ dropped' = << >>
    /\ UNCHANGED << conn, created, returned >>

ListTags ==
    /\ op' = "list_tags"
    /\ arg' = << >>
    /\ ret' = list_tags(conn)
    /\ dropped' = << >>
    /\ UNCHANGED << conn, created, returned >>

\* The texts of ts whose add_tag result in rs reports a new row.
RECURSIVE Inserted(_, _)
Inserted(ts, rs) ==
    IF ts = << >> THEN << >>
    ELSE (IF Head(rs).kind = "Ok" /\ Head(rs).val.kind = "TagId"
          THEN << Head(ts) >> ELSE << >>) \o Inserted(Tail(ts), Tail(rs))

AddTag(tag) ==
    /\ Cardinality(conn.tags) < MaxRows
    /\ LET r == add_tag(conn, tag)
       IN /\ conn' = r.conn
          /\ ret' = r.res
          /\ created' = created \o Inserted(<< tag >>, << r.res >>)
    /\ op' = "add_tag"
    /\ arg' = tag
    /\ dropped' = << >>
    /\ UNCHANGED returned

AddEntry(entry) ==
    /\ Cardinality(conn.tags) < MaxRows
    /\ Cardinality(conn.links) < MaxRows
    /\ LET r == add_entry(conn, entry)
           ts == IF entry.tags = None THEN << >> ELSE entry.tags[1]
       IN /\ conn' = r.conn
          /\ ret' = r.res
          /\ dropped' = r.dropped
          /\ created' = created \o Inserted(ts, Tail(r.dropped))
          /\ returned' = IF r.res.kind = "Ok" THEN returned \cup {r.res.val}
                         ELSE returned
    /\ op' = "add_entry"
    /\ arg' = entry

Next ==
    \/ \E tag \in Texts : GetTagId(tag)
    \/ \E tag \in Texts : ContainsTag(tag)
    \/ ListTags
    \/ \E tag \in Texts : AddTag(tag)
    \/ \E entry \in Entries : AddEntry(entry)

Spec == Init /\ [][Next]_vars

(* ------------------------------ properties ----------------------------- *)

\* The rows of tags whose text is exactly t.
RowsWithText(c, t) == { r \in c.tags : r.tag = t }

\* C1: whenever add_tag is called with a text no row of tags holds, it
\* returns TagId(i), and get_tag_id of the same text on the resulting store
\* returns TagId(i) with the same i.
C1_AddTagGetTagSame ==
    [][ (op' = "add_tag" /\ RowsWithText(conn, arg') = {})
        => /\ ret'.kind = "Ok"
           /\ ret'.val.kind = "TagId"
           /\ get_tag_id(conn', arg') = Ok(TagId(ret'.val.val)) ]_vars

\* add_tag has created a tag in a store that already held another one.
C1_Witness ==
    /\ op = "add_tag"
    /\ ret.kind = "Ok"
    /\ ret.val.kind = "TagId"
    /\ ret.val.val >= 2
    /\ get_tag_id(conn, arg) = Ok(TagId(ret.val.val))

\* C2: no two rows of tags hold the same text, and list_tags holds each
\* text at most once.
C2_TagTextsUnique ==
    /\ \A r, s \in conn.tags : r.tag = s.tag => r = s
    /\ LET l == list_tags(conn).val
       IN \A i, j \in 1..Len(l) : l[i] = l[j] => i = j

\* add_entry has run with a tag list that repeats a text: the first
\* occurrence created the row and the second met it.
C2_Witness ==
    /\ op = "add_entry"
    /\ arg.tags # None
    /\ Len(arg.tags[1]) = 2
    /\ arg.tags[1][1] = arg.tags[1][2]
    /\ Cardinality(RowsWithText(conn, arg.tags[1][1])) = 1
    /\ dropped[2] = Ok(TagId(conn.last_insert_rowid))
    /\ dropped[3] = Ok(TagAlreadyExists)

\* C3: list_tags returns the tag texts in the order in which their rows
\* were created, none missing.
C3_ListTagsCreationOrder ==
    /\ list_tags(conn) = Ok(created)
    /\ op = "list_tags" => ret = Ok(created)

\* list_tags has returned two or more texts.
C3_Witness ==
    /\ op = "list_tags"
    /\ ret.kind = "Ok"
    /\ Len(ret.val) >= 2
    /\ ret.val = created

\* C4 (as claimed): after add_entry with the tag list ts, the texts of the
\* tags that linktags associates with the returned link, in row order, are
\* exactly ts.
C4_EntryTagsAssociated ==
    (op = "add_entry" /\ ret.kind = "Ok" /\ arg.tags # None)
    => LET rows == SelectSeq(Scan(conn.linktags, "rowid"),
                             LAMBDA r : r.link_id = ret.val)
           text(r) == (CHOOSE t \in conn.tags : t.tag_id = r.tag_id).tag
       IN /\ \A i \in 1..Len(rows) : \E t \in conn.tags : t.tag_id = rows[i].tag_id
          /\ [i \in 1..Len(rows) |-> text(rows[i])] = arg.tags[1]

\* C5 (as claimed): a successful add_entry returns the identifier of a link
\* row it inserted; the first one returns 1, and each later one returns an
\* identifier greater than every identifier returned before.
C5_AddEntryReturnsNewLinkId ==
    [][ (op' = "add_entry" /\ ret'.kind = "Ok")
        => /\ \E r \in conn'.links \ conn.links : r.link_id = ret'.val
           /\ returned = {} => ret'.val = 1
           /\ \A i \in returned : i < ret'.val ]_vars

\* C6 (as claimed): a successful add_entry has added exactly one row to
\* links, holding the entry's link text and the archive state Queue.
C6_AddEntryInsertsQueueLink ==
    [][ (op' = "add_entry" /\ ret'.kind = "Ok")
        => \E r \in conn'.links :
              /\ r \notin conn.links
              /\ conn'.links = conn.links \cup {r}
              /\ r.link = arg'.link
              /\ "archive" \in DOMAIN r
              /\ r["archive"] = Queue ]_vars

\* Some step of the last add_entry call failed.
SomeStepFailed(ds) == \E i \in 1..Len(ds) : ds[i].kind = "Err"

\* C7 (as claimed): when a step of add_entry fails, links, tags and
\* linktags are after the call what they were before it.
C7_AddEntryAllOrNothing ==
    [][ (op' = "add_entry" /\ SomeStepFailed(dropped'))
        => /\ conn'.links = conn.links
           /\ conn'.tags = conn.tags
           /\ conn'.linktags = conn.linktags ]_vars

\* C8 (as claimed): add_entry returns the first failure among its steps,
\* and returns success only when every step succeeded.
C8_AddEntryPropagatesErrors ==
    op = "add_entry"
    => IF SomeStepFailed(dropped)
       THEN LET first == CHOOSE i \in 1..Len(dropped) :
                            /\ dropped[i].kind = "Err"
                            /\ \A j \in 1..(i - 1) : dropped[j].kind # "Err"
            IN ret = dropped[first]
       ELSE ret.kind = "Ok"

\* C10: get_tag_id(t) is TagId(i) exactly when a row of tags holds exactly
\* the text t and i is that row's identifier, and TagNotFound otherwise;
\* contains_tag(t) is true exactly when get_tag_id(t) is a TagId.
C10_GetTagIdExactMatch ==
    /\ \A t \in Texts :
          LET q == get_tag_id(conn, t)
              rows == RowsWithText(conn, t)
          IN /\ q.kind = "Ok"
             /\ \A i \in 0..MaxRows :
                   q.val = TagId(i) <=> (\E r \in rows : r.tag_id = i)
             /\ q.val = TagNotFound <=> rows = {}
             /\ q.val.kind \in {"TagId", "TagNotFound"}
             /\ contains_tag(conn, t) = Ok(q.val.kind = "TagId")
    /\ op = "get_tag_id"
       => /\ (ret.val.kind = "TagId"
                <=> \E r \in conn.tags : r.tag = arg /\ r.tag_id = ret.val.val)
          /\ (ret.val = TagNotFound <=> RowsWithText(conn, arg) = {})
    /\ op = "contains_tag" => ret.val = (RowsWithText(conn, arg) # {})

\* get_tag_id has found a text while tags also holds, under another
\* identifier, a text that differs from it only by case or a trailing blank.
C10_Witness ==
    /\ op = "get_tag_id"
    /\ ret.kind = "Ok"
    /\ ret.val.kind = "TagId"
    /\ \E r \in conn.tags :
          /\ r.tag # arg
          /\ Fold(r.tag) = Fold(arg)
          /\ r.tag_id < ret.val.val

\* C12: add_tag of a text some row holds returns TagAlreadyExists and
\* leaves links, tags and linktags as they were; add_tag of an absent text
\* adds exactly one tags row, holding that text, returns TagId of that row
\* and leaves every other row as it was.
C12_AddTagFrame ==
    [][ op' = "add_tag"
        => /\ conn'.links = conn.links
           /\ conn'.linktags = conn.linktags
           /\ IF RowsWithText(conn, arg') # {}
              THEN /\ ret' = Ok(TagAlreadyExists)
                   /\ conn'.tags = conn.tags
              ELSE \E r \in conn'.tags :
                      /\ r \notin conn.tags
                      /\ conn'.tags = conn.tags \cup {r}
                      /\ r.tag = arg'
                      /\ ret' = Ok(TagId(r.tag_id)) ]_vars

\* add_tag has met an existing text in a store holding two or more tags.
C12_Witness ==
    /\ op = "add_tag"
    /\ ret = Ok(TagAlreadyExists)
    /\ RowsWithText(conn, arg) # {}
    /\ Len(created) >= 2

\* C13: the k-th distinct text created since the database was opened has
\* the identifier k, whatever repeats and add_entry calls came in between.
C13_TagIdsInCreationOrder ==
    \A k \in 1..Len(created) : get_tag_id(conn, created[k]) = Ok(TagId(k))

\* get_tag_id has returned TagId(3) for the third text created.
C13_Witness ==
    /\ op = "get_tag_id"
    /\ Len(created) >= 3
    /\ arg = created[3]
    /\ ret = Ok(TagId(3))

\* C14: a text that get_tag_id resolves to TagId(i) resolves to the same
\* TagId(i) after any further call, and no row of tags is removed or changed.
C14_TagsStable ==
    [][ /\ conn.tags \subseteq conn'.tags
        /\ \A t \in Texts :
              get_tag_id(conn, t).val.kind = "TagId"
              => get_tag_id(conn', t) = get_tag_id(conn, t) ]_vars

\* add_entry has created a tag while the first tag created keeps identifier 1.
C14_Witness ==
    /\ op = "add_entry"
    /\ Len(dropped) >= 2
    /\ dropped[Len(dropped)] = Ok(TagId(conn.last_insert_rowid))
    /\ conn.last_insert_rowid >= 2
    /\ get_tag_id(conn, created[1]) = Ok(TagId(1))

\* C15: get_tag_id, contains_tag and list_tags leave the relations and the
\* identifier counters as they were, so add_tag of any text gives after the
\* query the result and the store it would have given before it.
C15_QueriesReadOnly ==
    [][ op' \in {"get_tag_id", "contains_tag", "list_tags"}
        => /\ conn'.links = conn.links
           /\ conn'.tags = conn.tags
           /\ conn'.linktags = conn.linktags
           /\ conn'.sqlite_sequence = conn.sqlite_sequence
           /\ \A t \in Texts : add_tag(conn', t) = add_tag(conn, t) ]_vars

\* contains_tag has answered false for an absent text in a store that holds
\* tags, so that a following add_tag of that text allocates an identifier.
C15_Witness ==
    /\ op = "contains_tag"
    /\ ret = Ok(FALSE)
    /\ conn.tags # {}
    /\ add_tag(conn, arg).res = Ok(TagId(conn.sqlite_sequence.tags + 1))

====
